---- MODULE Spec2Model ----
(***************************************************************************)
(* Click routing of ClickableDetail (lib/DynamicSVG.tsx): the registry of  *)
(* click handlers built from the children tree, the dispatch of the        *)
(* observer's "x,y" payloads to the handlers, and the shape hit tests.      *)
(***************************************************************************)
EXTENDS Integers, Sequences, FiniteSets, TLC

VARIABLES
  children,           \* props.children of the committed render (top-level siblings)
  isLoading,          \* props.isLoading
  waitUntilAllLoaded, \* props.waitUntilAllLoaded
  content,            \* useState: markup shown by Detail
  clickHandlers,      \* useState: the registry
  clickHandler,       \* useRef: the dispatcher the bridge calls
  queued,             \* setClickHandlers/setContent calls not yet rendered
  pendingEffects,     \* passive effects of the last commit, not yet flushed
  mounted,            \* FALSE once React removed the component (error or teardown)
  bridge,             \* the observer process: "none", "running" or "failed"
  spawned,            \* number of times execScript has called spawn
  wasLoading,         \* props.isLoading of the render before the committed one
  stderr,             \* the observer's stderr: text written and not yet read,
                      \* the events reported, the dispatches made for them
  generation,         \* number of parent renders so far
  output,             \* the last payload delivered
  invoked,            \* callback invocations made for the last payload
  prevThrew,          \* a callback threw during the payload before the last
  probe,              \* a hit test taken alone: the element, the point, the result
  delegate,           \* useToggleDelegate of the owner, and the Toggle it is given to
  delegates,          \* useToggleDelegates of the owner
  preload             \* usePreloadedImages of the owner

vars == <<children, isLoading, waitUntilAllLoaded, content, clickHandlers,
          clickHandler, queued, pendingEffects, mounted, bridge, spawned,
          wasLoading, stderr, generation, output, invoked, prevThrew, probe,
          delegate, delegates, preload>>

\* ------------------------------------------------------------ bounds
MaxGeneration == 2

\* ------------------------------------------------ JavaScript numbers
\* A number is finite (an integer here), NaN, or the value undefined.
Num(n) == [t |-> "num", v |-> n]
NaN == [t |-> "nan", v |-> 0]
Undefined == [t |-> "undef", v |-> 0]
IsNum(a) == a.t = "num"
Add(a, b) == IF IsNum(a) /\ IsNum(b) THEN Num(a.v + b.v) ELSE NaN
Sub(a, b) == IF IsNum(a) /\ IsNum(b) THEN Num(a.v - b.v) ELSE NaN
Mul(a, b) == IF IsNum(a) /\ IsNum(b) THEN Num(a.v * b.v) ELSE NaN
\* Comparisons with NaN or undefined are false.
Gt(a, b) == IsNum(a) /\ IsNum(b) /\ a.v > b.v
Lt(a, b) == IsNum(a) /\ IsNum(b) /\ a.v < b.v
Ge(a, b) == IsNum(a) /\ IsNum(b) /\ a.v >= b.v
Le(a, b) == IsNum(a) /\ IsNum(b) /\ a.v <= b.v
\* Truthiness of a number-or-undefined value: 0, NaN and undefined are falsy.
Truthy(a) == IsNum(a) /\ a.v # 0
OrElse(a, d) == IF Truthy(a) THEN a ELSE Num(d)
Abs(n) == IF n < 0 THEN -n ELSE n

\* The constant padding of the embedded image, added by every hit test.
Margin == 15
ToggleHitWidth == 100
ToggleHitHeight == 20
DefaultFontSize == 16
RayStartY == -100

\* --------------------------------------------------------- elements
\* A JSX element: its type, its props (undefined when not given), its
\* callback ("none": no onClick prop; "ok": returns; "throw": raises) and its
\* children.  A "#text" element is a string child: it has no props; its
\* `lines` are the lengths of the lines of the string.
NoProps ==
  [type |-> "g", onClick |-> "none", children |-> <<>>,
   x |-> Undefined, y |-> Undefined, width |-> Undefined, height |-> Undefined,
   cx |-> Undefined, cy |-> Undefined, radius |-> Undefined,
   rx |-> Undefined, ry |-> Undefined,
   x1 |-> Undefined, y1 |-> Undefined, x2 |-> Undefined, y2 |-> Undefined,
   strokeWidth |-> Undefined, fontSize |-> Undefined, controlSize |-> Undefined,
   points |-> <<>>, lines |-> <<>>]

El(props) == props @@ NoProps

Rect(x, y, w, h, cb, kids) ==
  El([type |-> "Rect", x |-> Num(x), y |-> Num(y), width |-> Num(w),
      height |-> Num(h), onClick |-> cb, children |-> kids])
DynamicSVG(h, kids) == El([type |-> "DynamicSVG", height |-> h, children |-> kids])
Circle(cx, cy, r, cb) ==
  El([type |-> "Circle", cx |-> Num(cx), cy |-> Num(cy), radius |-> Num(r), onClick |-> cb])
Ellipse(cx, cy, rx, ry, cb) ==
  El([type |-> "Ellipse", cx |-> Num(cx), cy |-> Num(cy), rx |-> Num(rx),
      ry |-> Num(ry), onClick |-> cb])
Line(x1, y1, x2, y2, sw, cb) ==
  El([type |-> "Line", x1 |-> Num(x1), y1 |-> Num(y1), x2 |-> Num(x2),
      y2 |-> Num(y2), strokeWidth |-> Num(sw), onClick |-> cb])
Polygon(pts, cb) == El([type |-> "Polygon", points |-> pts, onClick |-> cb])
Toggle(x, y, cb) ==
  El([type |-> "Toggle", x |-> Num(x), y |-> Num(y), width |-> Num(60),
      height |-> Num(30), controlSize |-> Num(10), onClick |-> cb])
StringChild(lens) == El([type |-> "#text", lines |-> lens])
Text(x, y, w, h, fs, lens, cb) ==
  El([type |-> "Text", x |-> x, y |-> y, width |-> w, height |-> h,
      fontSize |-> fs, onClick |-> cb, children |-> <<StringChild(lens)>>])
H1(x, y, w, h, cb) ==
  El([type |-> "H1", x |-> x, y |-> y, width |-> w, height |-> h, onClick |-> cb])

\* child.props?.onClick / child.props?.children of an element
HasOnClick(el) == el.type # "#text" /\ el.onClick # "none"
HasChildren(el) == el.type # "#text" /\ el.children # <<>>

\* ------------------------------------------------------- hit tests
\* A variant of the circle test that takes the points of the circle itself.
CircleContainsClosed(circle, x, y) ==
  LET dx == x.v - (circle.cx.v + Margin)
      dy == y.v - (circle.cy.v + Margin)
  IN dx * dx + dy * dy <= circle.radius.v * circle.radius.v

\* A variant of the ellipse test that takes the points of the ellipse itself.
EllipseContainsClosed(ellipse, x, y) ==
  /\ ellipse.rx.v # 0 /\ ellipse.ry.v # 0
  /\ LET dx == x.v - ellipse.cx.v - Margin
         dy == y.v - ellipse.cy.v - Margin
         rx2 == ellipse.rx.v * ellipse.rx.v
         ry2 == ellipse.ry.v * ellipse.ry.v
     IN dx * dx * ry2 + dy * dy * rx2 <= rx2 * ry2

\* A variant of the ellipse test in which an ellipse with a zero radius is
\* the segment of its other axis.
EllipseContainsFlat(ellipse, x, y) ==
  LET dx == x.v - ellipse.cx.v - Margin
      dy == y.v - ellipse.cy.v - Margin
      rx2 == ellipse.rx.v * ellipse.rx.v
      ry2 == ellipse.ry.v * ellipse.ry.v
  IN IF ellipse.rx.v = 0 THEN dx = 0 /\ dy * dy < ry2
     ELSE IF ellipse.ry.v = 0 THEN dy = 0 /\ dx * dx < rx2
     ELSE dx * dx * ry2 + dy * dy * rx2 < rx2 * ry2

\* A variant of the line test that takes a segment with x1 = x2 as the
\* vertical line through it.
LineContainsVertical(line, x, y) ==
  LET x1 == line.x1.v + Margin
      dx == line.x2.v - line.x1.v
      dy == line.y2.v - line.y1.v
      d == (y.v - (line.y1.v + Margin)) * dx - dy * (x.v - x1)
  IN IF dx = 0
     THEN (IF x.v < x1 THEN x1 - x.v ELSE x.v - x1) < line.strokeWidth.v
     ELSE (IF d < 0 THEN -d ELSE d) < line.strokeWidth.v * (IF dx < 0 THEN -dx ELSE dx)

\* A variant of the line test that ends at the two endpoints.
LineContainsClipped(line, x, y) ==
  LET x1 == line.x1.v + Margin
      x2 == line.x2.v + Margin
      dx == x2 - x1
      dy == line.y2.v - line.y1.v
  IN /\ dx # 0
     /\ x.v >= (IF x1 < x2 THEN x1 ELSE x2) /\ x.v <= (IF x1 < x2 THEN x2 ELSE x1)
     /\ (IF (y.v - (line.y1.v + Margin)) * dx - dy * (x.v - x1) < 0
         THEN dy * (x.v - x1) - (y.v - (line.y1.v + Margin)) * dx
         ELSE (y.v - (line.y1.v + Margin)) * dx - dy * (x.v - x1))
          < line.strokeWidth.v * (IF dx < 0 THEN -dx ELSE dx)

\* A variant of the toggle test that follows the declared width and height.
ToggleContainsDeclaredSize(toggle, x, y) ==
  /\ x.v >= Margin + toggle.x.v /\ x.v <= Margin + toggle.x.v + toggle.width.v
  /\ y.v >= Margin + toggle.y.v /\ y.v <= Margin + toggle.y.v + toggle.height.v

\* Circle.doesContainPoint: sqrt(dx^2 + dy^2) < radius.
CircleDoesContainPoint(circle, x, y) ==
  /\ IsNum(x) /\ IsNum(y)
  /\ IsNum(circle.cx) /\ IsNum(circle.cy) /\ IsNum(circle.radius)
  /\ circle.radius.v > 0
  /\ LET dx == x.v - (circle.cx.v + Margin)
         dy == y.v - (circle.cy.v + Margin)
     IN dx * dx + dy * dy < circle.radius.v * circle.radius.v

\* Ellipse.doesContainPoint: (dx/rx)^2 + (dy/ry)^2 < 1; a division by zero
\* gives Infinity or NaN, and the comparison is then false.
EllipseDoesContainPoint(ellipse, x, y) ==
  /\ IsNum(x) /\ IsNum(y)
  /\ IsNum(ellipse.cx) /\ IsNum(ellipse.cy) /\ IsNum(ellipse.rx) /\ IsNum(ellipse.ry)
  /\ ellipse.rx.v # 0 /\ ellipse.ry.v # 0
  /\ LET dx == x.v - ellipse.cx.v - Margin
         dy == y.v - ellipse.cy.v - Margin
         rx2 == ellipse.rx.v * ellipse.rx.v
         ry2 == ellipse.ry.v * ellipse.ry.v
     IN dx * dx * ry2 + dy * dy * rx2 < rx2 * ry2

\* Line.doesContainPoint: |y - (m*x + b)| < strokeWidth with m the slope of
\* the line through the shifted endpoints; multiplied through by |x2 - x1|.
\* With x1 = x2 the slope is infinite or NaN and the comparison is false.
\* Exact arithmetic: the code divides in double precision, which is exact
\* for the slopes used here (0, 1 and -1/2).
LineDoesContainPoint(line, x, y) ==
  /\ IsNum(x) /\ IsNum(y)
  /\ IsNum(line.x1) /\ IsNum(line.y1) /\ IsNum(line.x2) /\ IsNum(line.y2)
  /\ IsNum(line.strokeWidth)
  /\ LET dx == (line.x2.v + Margin) - (line.x1.v + Margin)
         dy == (line.y2.v + Margin) - (line.y1.v + Margin)
     IN /\ dx # 0
        /\ Abs((y.v - (line.y1.v + Margin)) * dx - dy * (x.v - (line.x1.v + Margin)))
             < line.strokeWidth.v * Abs(dx)

\* Toggle.doesContainPoint: a fixed box anchored at the declared x, y.
ToggleDoesContainPoint(toggle, x, y) ==
  /\ Ge(x, Add(Num(Margin), toggle.x))
  /\ Le(x, Add(Add(Num(Margin), toggle.x), Num(ToggleHitWidth)))
  /\ Ge(y, Add(Num(Margin), toggle.y))
  /\ Le(y, Add(Add(Num(Margin), toggle.y), Num(ToggleHitHeight)))

\* Minimum and maximum of a non-empty set of integers (Math.min, Math.max).
MinOf(S) == CHOOSE m \in S : \A n \in S : m <= n
MaxOf(S) == CHOOSE m \in S : \A n \in S : m >= n

\* n/d >= k and n/d <= k for a rational n/d with d # 0 and an integer k.
RatGe(n, d, k) == IF d > 0 THEN n >= k * d ELSE n <= k * d
RatLe(n, d, k) == IF d > 0 THEN n <= k * d ELSE n >= k * d

\* The vertices of a polygon shifted by the margin.  `points` holds the
\* integer pairs that split(" "), split(",") and parseInt read from the
\* points attribute.
ShiftedPoints(polygon) ==
  [i \in 1..Len(polygon.points) |->
     [x |-> Margin + polygon.points[i][1], y |-> Margin + polygon.points[i][2]]]

\* Edge i joins vertex i to the next vertex, the last one to the first.
Edges(points) ==
  [i \in 1..Len(points) |->
     [x1 |-> points[i].x, y1 |-> points[i].y,
      x2 |-> points[(i % Len(points)) + 1].x, y2 |-> points[(i % Len(points)) + 1].y]]

\* One pass of the counting loop: whether the intersection (x0, y0) of the
\* ray's line and the edge's line is counted.  x0 = nx/d and y0 = ny/(rdx*d)
\* in exact arithmetic; a vertical ray, a vertical or zero-length edge and
\* parallel lines give a non-finite x0, which is not counted.  The code
\* computes x0 and y0 in double precision, where an intersection that lies
\* on a bound of one of the boxes can fall on either side of it.
EdgeCounts(edge, ray, box) ==
  LET rdx == ray.x2 - ray.x1
      rdy == ray.y2 - ray.y1
      edx == edge.x2 - edge.x1
      edy == edge.y2 - edge.y1
      d   == rdy * edx - edy * rdx
      nx  == (edge.y1 - ray.y1) * edx * rdx - edy * edge.x1 * rdx + rdy * ray.x1 * edx
      ny  == rdy * (nx - ray.x1 * d) + ray.y1 * rdx * d
      startX == IF ray.x1 < ray.x2 THEN ray.x1 ELSE ray.x2
      endX   == IF ray.x1 < ray.x2 THEN ray.x2 ELSE ray.x1
      startY == IF ray.y1 < ray.y2 THEN ray.y1 ELSE ray.y2
      endY   == IF ray.y1 < ray.y2 THEN ray.y2 ELSE ray.y1
  IN /\ rdx # 0 /\ edx # 0 /\ d # 0
     /\ RatGe(nx, d, startX) /\ RatLe(nx, d, endX)
     /\ RatGe(ny, rdx * d, startY) /\ RatLe(ny, rdx * d, endY)
     /\ RatGe(nx, d, box.minX) /\ RatLe(nx, d, box.maxX)
     /\ RatGe(ny, rdx * d, box.minY) /\ RatLe(ny, rdx * d, box.maxY)

\* A variant in which the counting loop runs for every query point.
PolygonLoopAlways(polygon, x, y) == Len(polygon.points)

\* The number of passes of the counting loop: none when the bounding-box
\* rejection returns first, one for each edge otherwise.
PolygonLoopPasses(polygon, x, y) ==
  LET points == ShiftedPoints(polygon)
      minX == MinOf({points[i].x : i \in 1..Len(points)})
      minY == MinOf({points[i].y : i \in 1..Len(points)})
      maxX == MaxOf({points[i].x : i \in 1..Len(points)})
      maxY == MaxOf({points[i].y : i \in 1..Len(points)})
  IN IF x.v < minX \/ x.v > maxX \/ y.v < minY \/ y.v > maxY
     THEN 0
     ELSE Len(Edges(points))

\* Polygon.doesContainPoint: bounding-box rejection, then the parity of the
\* number of counted intersections of the ray from (first vertex x, -100).
PolygonDoesContainPoint(polygon, x, y) ==
  /\ IsNum(x) /\ IsNum(y)
  /\ LET points == ShiftedPoints(polygon)
         edges == Edges(points)
         box == [minX |-> MinOf({points[i].x : i \in 1..Len(points)}),
                 minY |-> MinOf({points[i].y : i \in 1..Len(points)}),
                 maxX |-> MaxOf({points[i].x : i \in 1..Len(points)}),
                 maxY |-> MaxOf({points[i].y : i \in 1..Len(points)})]
         ray == [x1 |-> points[1].x, y1 |-> RayStartY, x2 |-> x.v, y2 |-> y.v]
         intersections == Cardinality({i \in 1..Len(edges) : EdgeCounts(edges[i], ray, box)})
     IN /\ ~(x.v < box.minX \/ x.v > box.maxX \/ y.v < box.minY \/ y.v > box.maxY)
        /\ intersections % 2 # 0

\* ------------------------------------------------- registry build
\* getChildrenRecursive: the element followed by its descendants, each with
\* the path of child indices that leads to it from the top-level list.
\* A variant that visits the children from the last to the first.
RECURSIVE getChildrenLastFirst(_, _)
RECURSIVE FlatMapChildrenLastFirst(_, _, _)
FlatMapChildrenLastFirst(child, path, i) ==
  IF i < 1 THEN <<>>
  ELSE getChildrenLastFirst(child.children[i], Append(path, i))
         \o FlatMapChildrenLastFirst(child, path, i - 1)
getChildrenLastFirst(child, path) ==
  IF HasChildren(child)
  THEN <<[path |-> path, el |-> child]>>
         \o FlatMapChildrenLastFirst(child, path, Len(child.children))
  ELSE <<[path |-> path, el |-> child]>>

RECURSIVE getChildrenRecursive(_, _)
RECURSIVE FlatMapChildren(_, _, _)
FlatMapChildren(child, path, i) ==
  IF i > Len(child.children) THEN <<>>
  ELSE getChildrenRecursive(child.children[i], Append(path, i))
         \o FlatMapChildren(child, path, i + 1)
getChildrenRecursive(child, path) ==
  IF HasChildren(child)
  THEN <<[path |-> path, el |-> child]>> \o FlatMapChildren(child, path, 1)
  ELSE <<[path |-> path, el |-> child]>>

\* Text.computeDimensions, in tenths of a unit (the text height is 1.1 *
\* fontSize * (lines + 1)).  Exact arithmetic.
TextComputeDimensions(text) ==
  LET fontSize == OrElse(text.fontSize, DefaultFontSize).v
      lines == IF text.children = <<>> THEN <<0>> ELSE text.children[1].lines
      textHeight10 == 11 * fontSize * (Len(lines) + 1)
      textWidth10 == 10 * (MaxOf({lines[i] : i \in 1..Len(lines)}) * fontSize - fontSize)
  IN IF Truthy(text.width) /\ Truthy(text.height)
       THEN [w |-> Mul(Num(10), text.width), h |-> Mul(Num(10), text.height)]
     ELSE IF Truthy(text.width)
       THEN [w |-> Mul(Num(10), text.width), h |-> Num(textHeight10)]
     ELSE IF Truthy(text.height)
       THEN [w |-> Num(textWidth10), h |-> Mul(Num(10), text.height)]
     ELSE [w |-> Num(textWidth10), h |-> Num(textHeight10)]

\* computedDimensions of the build loop, in tenths of a unit.
ComputedDimensions(childChild) ==
  IF childChild.type \in {"Text", "Link"}
  THEN TextComputeDimensions(childChild)
  ELSE [w |-> Mul(Num(10), childChild.width), h |-> Mul(Num(10), childChild.height)]

\* The geometry check of the build loop: the element makes the build throw.
MissingGeometry(childChild) ==
  /\ childChild.x.t = "undef" \/ childChild.y.t = "undef"
  /\ childChild.type \notin {"Circle", "Ellipse", "Polygon", "Line"}

\* A handler pushed for a top-level child with a callback.  The closure reads
\* heightUpToNow when it is called, that is, the value the loop ended with.
TopHandler(child, i, finalHeight) ==
  [top |-> TRUE, path |-> <<i>>, el |-> child, heightUpToNow |-> finalHeight,
   computedDimensions |-> [w |-> Undefined, h |-> Undefined]]

\* A handler pushed for an element of getChildrenRecursive(child).
NestedHandler(entry) ==
  [top |-> FALSE, path |-> entry.path, el |-> entry.el, heightUpToNow |-> 0,
   computedDimensions |-> ComputedDimensions(entry.el)]

\* Sum of `height || 0` over the top-level children 1..k.
RECURSIVE HeightUpTo(_, _)
HeightUpTo(kids, k) ==
  IF k = 0 THEN 0 ELSE HeightUpTo(kids, k - 1) + OrElse(kids[k].height, 0).v

\* The handlers one pass of the top-level loop pushes for child i.
HandlersOfChild(kids, i) ==
  LET child == kids[i]
      childChildren == IF HasChildren(child) THEN getChildrenRecursive(child, <<i>>) ELSE <<>>
      interactive == SelectSeq(childChildren, LAMBDA e : HasOnClick(e.el))
  IN (IF HasOnClick(child) THEN <<TopHandler(child, i, HeightUpTo(kids, Len(kids)))>> ELSE <<>>)
       \o [j \in 1..Len(interactive) |-> NestedHandler(interactive[j])]

\* Whether the pass for child i throws the geometry error.
ChildThrows(kids, i) ==
  /\ HasChildren(kids[i])
  /\ LET childChildren == getChildrenRecursive(kids[i], <<i>>)
     IN \E j \in 1..Len(childChildren) :
          HasOnClick(childChildren[j].el) /\ MissingGeometry(childChildren[j].el)

RECURSIVE BuildFrom(_, _)
BuildFrom(kids, i) ==
  IF i > Len(kids) THEN <<>> ELSE HandlersOfChild(kids, i) \o BuildFrom(kids, i + 1)

\* The build loop over the top-level children: the new handlers, or the
\* error thrown.
BuildHandlers(kids) ==
  IF \E i \in 1..Len(kids) : ChildThrows(kids, i)
  THEN [ok |-> FALSE, handlers |-> <<>>]
  ELSE [ok |-> TRUE, handlers |-> BuildFrom(kids, 1)]

\* ------------------------------------------------------- handlers
\* The condition of a top-level handler (a disjunction in the source).
TopCondition(h, x, y) ==
  \/ Gt(x, h.el.x)
  \/ Lt(x, Add(h.el.x, h.el.width))
  \/ Gt(y, Add(Num(h.heightUpToNow), h.el.y))
  \/ Lt(y, Add(Add(Num(h.heightUpToNow), h.el.y), h.el.height))

\* A variant of the bounding-box test without the margin, bounds included.
BoundingBoxContainsDeclared(h, x, y) ==
  /\ Ge(x, h.el.x)
  /\ Le(Mul(Num(10), x), Add(Mul(Num(10), h.el.x), h.computedDimensions.w))
  /\ Ge(y, h.el.y)
  /\ Le(Mul(Num(10), y), Add(Mul(Num(10), h.el.y), h.computedDimensions.h))

\* The bounding-box test of a nested handler, in tenths of a unit.
BoundingBoxContains(h, x, y) ==
  /\ Gt(x, Add(Num(Margin), h.el.x))
  /\ Lt(Mul(Num(10), x),
        Sub(Add(Mul(Num(10), h.el.x), h.computedDimensions.w), Num(10 * Margin)))
  /\ Gt(y, Add(Num(Margin), h.el.y))
  /\ Lt(Mul(Num(10), y), Add(Mul(Num(10), h.el.y), h.computedDimensions.h))

\* The test a nested handler makes before it calls the callback.
NestedContains(h, x, y) ==
  CASE h.el.type = "Line"    -> LineDoesContainPoint(h.el, x, y)
    [] h.el.type = "Circle"  -> CircleDoesContainPoint(h.el, x, y)
    [] h.el.type = "Ellipse" -> EllipseDoesContainPoint(h.el, x, y)
    [] h.el.type = "Polygon" -> PolygonDoesContainPoint(h.el, x, y)
    [] h.el.type = "Toggle"  -> ToggleDoesContainPoint(h.el, x, y)
    [] OTHER                 -> BoundingBoxContains(h, x, y)

\* One call of a handler: the callback invocation it makes, if any, and how
\* it ends ("true", "false", or "throw" when the exception leaves it).  The
\* handler h is a closure as HandlerOf gives it.
CallHandler(h, x, y) ==
  LET call == [tree |-> h.tree, path |-> h.path, top |-> h.top, x |-> x, y |-> y,
               threw |-> h.el.onClick = "throw",
               escaped |-> h.top /\ h.el.onClick = "throw"]
  IN IF h.top
     THEN IF TopCondition(h, x, y)
          THEN [calls |-> <<call>>,
                end |-> IF h.el.onClick = "throw" THEN "throw" ELSE "true"]
          ELSE [calls |-> <<>>, end |-> "false"]
     ELSE IF ~NestedContains(h, x, y)
          THEN [calls |-> <<>>, end |-> "false"]
          ELSE [calls |-> <<call>>,
                end |-> IF h.el.onClick = "throw" THEN "false" ELSE "true"]

\* The scan of the dispatcher from handler i on: the callback invocations
\* made, in order.  The scan ends at the first handler that returns true and
\* at a handler that throws (the exception leaves the dispatcher; the call
\* that raised it is the last one, with `escaped` set).
RECURSIVE Scan(_, _, _, _)
Scan(handlers, i, x, y) ==
  IF i > Len(handlers) THEN <<>>
  ELSE LET r == CallHandler(handlers[i], x, y)
       IN IF r.end \in {"true", "throw"} THEN r.calls
          ELSE r.calls \o Scan(handlers, i + 1, x, y)

\* ------------------------------------------------ payload parsing
\* A payload is the sequence of the characters of the text.
Digits == {"0", "1", "2", "3", "4", "5", "6", "7", "8", "9"}
DigitValue(c) ==
  CASE c = "0" -> 0 [] c = "1" -> 1 [] c = "2" -> 2 [] c = "3" -> 3 [] c = "4" -> 4
    [] c = "5" -> 5 [] c = "6" -> 6 [] c = "7" -> 7 [] c = "8" -> 8 [] c = "9" -> 9
Whitespace == {" ", "\n", "\r", "\t"}

\* String.prototype.split(","): the pieces between the commas.
RECURSIVE Split(_, _)
Split(s, piece) ==
  IF s = <<>> THEN <<piece>>
  ELSE IF Head(s) = "," THEN <<piece>> \o Split(Tail(s), <<>>)
  ELSE Split(Tail(s), Append(piece, Head(s)))

RECURSIVE SkipWhitespace(_)
SkipWhitespace(s) ==
  IF s # <<>> /\ Head(s) \in Whitespace THEN SkipWhitespace(Tail(s)) ELSE s

\* The value of the longest prefix of decimal digits of s, after acc.
RECURSIVE DigitsValue(_, _)
DigitsValue(s, acc) ==
  IF s # <<>> /\ Head(s) \in Digits
  THEN DigitsValue(Tail(s), 10 * acc + DigitValue(Head(s)))
  ELSE acc

\* parseInt(s) in radix 10: leading whitespace and a sign are skipped, the
\* digits up to the first other character are read, NaN when there is none.
parseInt(s) ==
  LET t == SkipWhitespace(s)
      signed == t # <<>> /\ Head(t) \in {"+", "-"}
      u == IF signed THEN Tail(t) ELSE t
  IN IF u = <<>> \/ Head(u) \notin Digits THEN NaN
     ELSE IF signed /\ Head(t) = "-" THEN Num(-DigitsValue(u, 0))
     ELSE Num(DigitsValue(u, 0))

\* clickHandler.current(output) once the dispatch effect has run: what one
\* payload makes the dispatcher do with the registry it closed over.
Dispatch(handlers, payload) ==
  LET coords == Split(payload, <<>>)
  IN IF Len(coords) # 2 THEN <<>>
     ELSE Scan(handlers, 1, parseInt(coords[1]), parseInt(coords[2]))

\* ---------------------------------------------------------- inputs
\* The children trees a parent render may pass, by name.  A tree is built
\* once and never changed, so the state holds the name of a tree where the
\* program holds a reference to it.
StackTree ==
  <<DynamicSVG(Num(50), <<Circle(20, 20, 10, "ok")>>),
    DynamicSVG(Num(100), <<Rect(0, 10, 100, 40, "ok", <<>>),
                           Ellipse(35, 35, 30, 20, "ok")>>)>>
StackToggleTree ==
  <<DynamicSVG(Num(50), <<H1(Num(0), Num(0), Undefined, Undefined, "ok")>>),
    DynamicSVG(Num(0), <<Toggle(0, 0, "ok")>>)>>
TopLevelTree ==
  <<Rect(0, 0, 10, 10, "ok", <<>>), DynamicSVG(Num(30), <<Circle(35, 35, 20, "ok")>>)>>
TopWithChildrenTree == <<Rect(0, 0, 100, 100, "throw", <<Circle(35, 35, 20, "ok")>>)>>
GroupTree ==
  <<DynamicSVG(Undefined,
      <<Rect(0, 0, 100, 100, "none", <<Circle(35, 35, 20, "ok")>>),
        Rect(0, 0, 100, 100, "ok", <<Ellipse(35, 35, 30, 20, "ok")>>)>>)>>
ShapesTree ==
  <<DynamicSVG(Undefined,
      <<Line(0, 0, 100, 100, 10, "throw"),
        Polygon(<<<<0, 0>>, <<40, 0>>, <<40, 40>>, <<0, 40>>>>, "ok"),
        Text(Num(0), Num(50), Undefined, Undefined, Undefined, <<5>>, "ok")>>)>>
PlainTree == <<DynamicSVG(Undefined, <<Rect(0, 0, 100, 100, "none", <<>>)>>)>>
BadGeometryTree ==
  <<DynamicSVG(Undefined, <<H1(Undefined, Undefined, Num(100), Num(20), "ok")>>)>>

Trees ==
  {"Stack", "StackToggle", "TopLevel", "TopWithChildren", "Group",
   "Shapes", "Plain", "BadGeometry"}

TreeOf(name) ==
  CASE name = "Stack"           -> StackTree
    [] name = "StackToggle"     -> StackToggleTree
    [] name = "TopLevel"        -> TopLevelTree
    [] name = "TopWithChildren" -> TopWithChildrenTree
    [] name = "Group"           -> GroupTree
    [] name = "Shapes"          -> ShapesTree
    [] name = "Plain"           -> PlainTree
    [] name = "BadGeometry"     -> BadGeometryTree

\* The element at a path of child indices below a list of siblings.
RECURSIVE ElementAt(_, _)
ElementAt(kids, path) ==
  IF Len(path) = 1 THEN kids[path[1]]
  ELSE ElementAt(kids[path[1]].children, Tail(path))

\* A handler as the state holds it: its element is named by tree and path.
HandlerRef(h, name) ==
  [top |-> h.top, tree |-> name, path |-> h.path, heightUpToNow |-> h.heightUpToNow,
   computedDimensions |-> h.computedDimensions]
HandlerRefs(handlers, name) == [i \in 1..Len(handlers) |-> HandlerRef(handlers[i], name)]
HandlerOf(ref) ==
  [top |-> ref.top, tree |-> ref.tree, path |-> ref.path,
   el |-> ElementAt(TreeOf(ref.tree), ref.path),
   heightUpToNow |-> ref.heightUpToNow, computedDimensions |-> ref.computedDimensions]
Closures(refs) == [i \in 1..Len(refs) |-> HandlerOf(refs[i])]

\* What the build loop makes of each tree: whether it completes, and the
\* handlers it pushes, as the state holds them.
Built ==
  [tree \in Trees |->
     LET built == BuildHandlers(TreeOf(tree))
     IN [ok |-> built.ok, refs |-> HandlerRefs(built.handlers, tree)]]

\* The payloads the observer's output may carry.
Payloads ==
  {<<"5", "0", ",", "5", "0">>,                \* "50,50"
   <<"2", "0", ",", "2", "0">>,                \* "20,20"
   <<"2", "0", ",", "7", "0">>,                \* "20,70"
   <<"5", "0", ",", "9", "0">>,                \* "50,90"
   <<"2", "0", "0", ",", "2", "0", "0">>,      \* "200,200"
   <<"a", "b", "c", ",", "5">>,                \* "abc,5"
   <<"5", ",", "a", "b", "c">>,                \* "5,abc"
   <<"1", ",", "2", ",", "3">>,                \* "1,2,3"
   <<"7">>,                                    \* "7"
   <<>>,                                       \* ""
   <<"1", ".", "5", ",", "2">>,                \* "1.5,2"
   <<"1", "2", "a", "b", "c", ",", "7">>}      \* "12abc,7"

\* The markup of the regeneration effect: one <img> per top-level child,
\* holding the child's rendering.
dataString(name) == [i \in 1..Len(TreeOf(name)) |-> [img |-> <<name, i>>]]

NoQueued == [set |-> FALSE, setClickHandlers |-> FALSE, clickHandlers |-> <<>>, content |-> <<>>]

\* The values of props.isLoading a render may pass.  Without
\* waitUntilAllLoaded the flag is read by nothing modelled here, and false
\* stands for both values.
LoadingFlags == IF waitUntilAllLoaded THEN BOOLEAN ELSE {FALSE}

\* ------------------------------------------------------------ state
\* No hit test is being taken alone.
NoProbe == [el |-> NoProps, x |-> 0, y |-> 0, probed |-> FALSE, hit |-> FALSE, examined |-> 0]

\* The first render has committed; its passive effects are pending.
InitComponent ==
  /\ children \in Trees
  /\ waitUntilAllLoaded \in BOOLEAN
  /\ isLoading \in LoadingFlags
  /\ content = <<>>
  /\ clickHandlers = <<>>
  /\ clickHandler = [set |-> FALSE, clickHandlers |-> <<>>]
  /\ queued = NoQueued
  /\ pendingEffects = {"regenerate", "dispatch", "bridge"}
  /\ mounted = TRUE
  /\ bridge = "none"
  /\ spawned = 0
  /\ wasLoading = isLoading
  /\ stderr = [pipe |-> <<>>, reported |-> <<>>, dispatched |-> <<>>]
  /\ generation = 1
  /\ output = <<>>
  /\ invoked = <<>>
  /\ prevThrew = FALSE

\* The owner of the component uses none of the hooks.
NoDelegate ==
  [initial |-> FALSE, enabled |-> FALSE, registered |-> FALSE, queue |-> <<>>,
   calls |-> 0, clicks |-> 0, onClicks |-> 0]
NoDelegates ==
  [initial |-> <<>>, states |-> <<>>, queue |-> <<>>, expected |-> <<>>,
   called |-> {}, repeated |-> FALSE, calls |-> 0]
NoPreload ==
  [sources |-> 0, fetching |-> 1, reading |-> {}, queue |-> <<>>, preloadStates |-> <<>>,
   failed |-> FALSE]
NoHooks == delegate = NoDelegate /\ delegates = NoDelegates /\ preload = NoPreload

Init == InitComponent /\ probe = NoProbe /\ NoHooks

\* ---------------------------------------------------------- actions
\* A variant of the load gate that never holds regeneration back.
LoadGateAlwaysOpen == FALSE

\* The load gate of the regeneration effect: the effect returns at once.
LoadGate == isLoading /\ waitUntilAllLoaded

\* What spawn("osascript", ...) can do inside execScript: the process
\* starts; the process cannot be created and spawn still returns a child,
\* which emits 'error' on a later tick (no file, no permission, no process
\* slot), where execScript has registered no listener for it; or the call
\* throws (spawn itself, or proc.stdin.on of a child left without pipes).
SpawnOutcomes == {"started", "error", "throw"}

\* The passive effects of the last commit run, in the order they are
\* declared: regeneration (deps [children, isLoading]), dispatch (deps
\* [clickHandlers]), bridge start (deps []).  An effect that throws ends the
\* flush and React removes the component.
FlushEffects ==
  /\ mounted
  /\ pendingEffects # {}
  /\ \E outcome \in SpawnOutcomes :
       LET regenerate == "regenerate" \in pendingEffects /\ ~LoadGate
           built == Built[children]
           handlers == built.refs
           threw == regenerate /\ ~built.ok
           starts == ~threw /\ "bridge" \in pendingEffects
       IN /\ queued' =
               IF regenerate /\ built.ok
               THEN [set |-> TRUE, setClickHandlers |-> handlers # <<>>,
                     clickHandlers |-> handlers, content |-> dataString(children)]
               ELSE queued
          /\ mounted' = (~threw /\ ~(starts /\ outcome = "throw"))
          /\ clickHandler' =
               IF ~threw /\ "dispatch" \in pendingEffects
               THEN [set |-> TRUE, clickHandlers |-> clickHandlers]
               ELSE clickHandler
          /\ bridge' = IF starts
                       THEN (IF outcome = "started" THEN "running" ELSE "failed")
                       ELSE bridge
          /\ spawned' = IF starts THEN spawned + 1 ELSE spawned
  /\ pendingEffects' = {}
  /\ UNCHANGED <<children, isLoading, waitUntilAllLoaded, content, clickHandlers,
                 wasLoading, stderr, generation, output, invoked, prevThrew, probe,
                 delegate, delegates, preload>>

\* The state updates of the regeneration effect are rendered and committed.
CommitQueued ==
  /\ clickHandlers' = IF queued.setClickHandlers THEN queued.clickHandlers ELSE clickHandlers
  /\ content' = IF queued.set THEN queued.content ELSE content
  /\ queued' = NoQueued

Render ==
  /\ mounted
  /\ pendingEffects = {}
  /\ queued.set
  /\ CommitQueued
  /\ pendingEffects' = IF queued.setClickHandlers THEN {"dispatch"} ELSE {}
  /\ UNCHANGED <<children, isLoading, waitUntilAllLoaded, clickHandler, mounted, bridge,
                 spawned, wasLoading, stderr, generation, output, invoked, prevThrew,
                 probe,
                 delegate, delegates, preload>>

\* A variant in which every render starts the bridge effect again.
ParentRenderRestartingBridge(tree, loading) ==
  /\ mounted
  /\ pendingEffects = {}
  /\ children' = tree
  /\ isLoading' = loading
  /\ wasLoading' = isLoading
  /\ generation' = generation + 1
  /\ CommitQueued
  /\ pendingEffects' = {"regenerate", "bridge"}
                         \cup (IF queued.setClickHandlers THEN {"dispatch"} ELSE {})
  /\ UNCHANGED <<waitUntilAllLoaded, clickHandler, mounted, bridge, spawned, stderr,
                 output, invoked, prevThrew, probe,
                 delegate, delegates, preload>>

\* The parent renders ClickableDetail with new children and loading flag;
\* state updates still queued are committed by the same render.
ParentRender(tree, loading) ==
  /\ mounted
  /\ pendingEffects = {}
  /\ children' = tree
  /\ isLoading' = loading
  /\ wasLoading' = isLoading
  /\ generation' = generation + 1
  /\ CommitQueued
  /\ pendingEffects' = {"regenerate"} \cup (IF queued.setClickHandlers THEN {"dispatch"} ELSE {})
  /\ UNCHANGED <<waitUntilAllLoaded, clickHandler, mounted, bridge, spawned, stderr,
                 output, invoked, prevThrew, probe,
                 delegate, delegates, preload>>

\* The host surface is torn down: React removes the component.  No effect
\* returns a cleanup, so the observer keeps running and the ref keeps its
\* dispatcher; updates still queued are dropped.
Unmount ==
  /\ mounted
  /\ mounted' = FALSE
  /\ pendingEffects' = {}
  /\ queued' = NoQueued
  /\ UNCHANGED <<children, isLoading, waitUntilAllLoaded, content, clickHandlers,
                 clickHandler, bridge, spawned, wasLoading, stderr, generation,
                 output, invoked, prevThrew, probe,
                 delegate, delegates, preload>>

\* A variant in which a callback that throws takes the dispatcher down.
DispatchFrameLosingHandler ==
  /\ clickHandler' =
       IF \E i \in 1..Len(invoked') : invoked'[i].threw
       THEN [set |-> FALSE, clickHandlers |-> <<>>]
       ELSE clickHandler
  /\ UNCHANGED <<children, isLoading, waitUntilAllLoaded, content, clickHandlers,
                 queued, pendingEffects, mounted, bridge, spawned, wasLoading,
                 generation, probe,
                 delegate, delegates, preload>>

\* What a dispatch leaves alone: it reads the registry and assigns nothing.
DispatchFrame ==
  UNCHANGED <<children, isLoading, waitUntilAllLoaded, content, clickHandlers,
              clickHandler, queued, pendingEffects, mounted, bridge, spawned,
              wasLoading, generation, probe,
              delegate, delegates, preload>>

\* A variant that scans the registry built last (queued or in the state)
\* instead of the one the dispatcher closed over.
DeliverFromLatestRegistry(payload) ==
  /\ bridge = "running"
  /\ invoked' = Dispatch(Closures(IF queued.set THEN queued.clickHandlers
                                                ELSE clickHandlers), payload)
  /\ output' = payload
  /\ prevThrew' = \E i \in 1..Len(invoked) : invoked[i].threw
  /\ DispatchFrame

\* The observer reports a payload and the bridge calls clickHandler.current.
Deliver(payload) ==
  /\ bridge = "running"
  /\ invoked' = IF clickHandler.set
                THEN Dispatch(Closures(clickHandler.clickHandlers), payload)
                ELSE <<>>
  /\ output' = payload
  /\ prevThrew' = \E i \in 1..Len(invoked) : invoked[i].threw
  /\ DispatchFrame

Next ==
  \/ FlushEffects
  \/ Render
  \/ \E tree \in Trees, loading \in LoadingFlags :
       generation < MaxGeneration /\ ParentRender(tree, loading)
  \/ Unmount
  \/ \E payload \in Payloads : Deliver(payload) /\ UNCHANGED stderr

Spec == Init /\ [][Next]_vars

\* ------------------------------------------------ scheduled behaviour
\* The behaviours in which React's scheduler does its work: effects that are
\* pending are eventually flushed and queued state updates are eventually
\* rendered.  Renders and payloads come from smaller sets, over one more
\* parent render.
MaxLiveGeneration == 3
LiveTrees == {"Stack", "Plain"}
LivePayloads == {<<"2", "0", ",", "2", "0">>, <<"a", "b", "c", ",", "5">>}

LiveInit == Init /\ waitUntilAllLoaded /\ children \in LiveTrees

LiveNext ==
  \/ FlushEffects
  \/ Render
  \/ \E tree \in LiveTrees, loading \in BOOLEAN :
       generation < MaxLiveGeneration /\ ParentRender(tree, loading)
  \/ Unmount
  \/ \E payload \in LivePayloads : Deliver(payload) /\ UNCHANGED stderr

LiveSpec == LiveInit /\ [][LiveNext]_vars /\ WF_vars(FlushEffects) /\ WF_vars(Render)

\* ------------------------------------------------------ the stderr pipe
\* The behaviours in which the payloads come from the observer through the
\* pipe: the observer writes one line per click, and a read hands the
\* stderr handler text that is in the pipe at that moment, wherever the
\* lines begin and end.
MaxReported == 3
Events == {<<"5", "0", ",", "5", "0">>, <<"2", "0", ",", "2", "0">>}

\* The observer reports a click: it writes the text of the event and a
\* newline to its stderr.
Report(event) ==
  /\ bridge = "running"
  /\ Len(stderr.reported) < MaxReported
  /\ stderr' = [stderr EXCEPT !.pipe = @ \o event \o <<"\n">>,
                              !.reported = Append(@, event)]
  /\ UNCHANGED <<children, isLoading, waitUntilAllLoaded, content, clickHandlers,
                 clickHandler, queued, pendingEffects, mounted, bridge, spawned,
                 wasLoading, generation, output, invoked, prevThrew, probe,
                 delegate, delegates, preload>>

\* The lengths of the reads that take less than all the text in the pipe:
\* a piece of a line, and one whole line.
ChunkLengths == {3, 6}

\* proc.stderr.on("data"): a read takes the first n characters that are in
\* the pipe (all of them, or fewer when the text arrives in pieces) and the
\* chunk is passed to the callback as it is, with nothing kept from one
\* read to the next.  A dispatch is made when the chunk passes the length
\* test of the dispatcher.
ReadChunk(n) ==
  /\ n \in 1..Len(stderr.pipe)
  /\ LET chunk == SubSeq(stderr.pipe, 1, n)
         coords == Split(chunk, <<>>)
     IN /\ Deliver(chunk)
        /\ stderr' = [stderr EXCEPT
                        !.pipe = SubSeq(@, n + 1, Len(@)),
                        !.dispatched =
                           IF clickHandler.set /\ Len(coords) = 2
                           THEN Append(@, <<parseInt(coords[1]), parseInt(coords[2])>>)
                           ELSE @]

BridgeInit == Init /\ ~waitUntilAllLoaded /\ children = "Stack"

BridgeNext ==
  \/ FlushEffects
  \/ Render
  \/ \E event \in Events : Report(event)
  \/ \E n \in ChunkLengths \cup {Len(stderr.pipe)} : ReadChunk(n)

BridgeSpec == BridgeInit /\ [][BridgeNext]_vars

\* ------------------------------------------------- claim vocabulary
\* A step that delivers a payload (only Deliver changes these variables).
DeliverStep == <<output, invoked, prevThrew>>' # <<output, invoked, prevThrew>>

\* A text of an optional sign and one or more decimal digits.
IsIntegerText(t) ==
  LET u == IF t # <<>> /\ Head(t) \in {"+", "-"} THEN Tail(t) ELSE t
  IN u # <<>> /\ \A i \in 1..Len(u) : u[i] \in Digits

\* The payload is two integers separated by one comma.
WellFormed(payload) ==
  LET coords == Split(payload, <<>>)
  IN Len(coords) = 2 /\ IsIntegerText(coords[1]) /\ IsIntegerText(coords[2])

ClickX(payload) == parseInt(Split(payload, <<>>)[1])
ClickY(payload) == parseInt(Split(payload, <<>>)[2])

\* The offset of a region: the heights of the top-level siblings declared
\* before the sibling the region's element belongs to.
StackingOffset(tree, path) == HeightUpTo(TreeOf(tree), path[1] - 1)

\* The point is in the declared rectangle of a top-level element, moved
\* down by the stacking offset.
DeclaredRectContains(ref, x, y) ==
  LET el == ElementAt(TreeOf(ref.tree), ref.path)
      top == Add(Num(StackingOffset(ref.tree, ref.path)), el.y)
  IN /\ Ge(x, el.x) /\ Le(x, Add(el.x, el.width))
     /\ Ge(y, top) /\ Le(y, Add(top, el.height))

\* The point lies inside the region: the declared rectangle of a top-level
\* element, the shape of a nested one.
Inside(ref, x, y) ==
  IF ref.top THEN DeclaredRectContains(ref, x, y)
  ELSE NestedContains(HandlerOf(ref), x, y)

Matching(refs, x, y) == {i \in 1..Len(refs) : Inside(refs[i], x, y)}

SomeThrew(calls) == \E i \in 1..Len(calls) : calls[i].threw

\* ----------------------------------------------------------- claims
\* C1: for a well-formed click whose point lies inside two or more regions
\* of the registry, the dispatcher invokes the callback of the first of them
\* in registry order and no callback of a later region.
C1_FirstRegionOnly ==
  [][DeliverStep /\ WellFormed(output') =>
       LET refs == clickHandler.clickHandlers
           hits == Matching(refs, ClickX(output'), ClickY(output'))
       IN Cardinality(hits) >= 2 =>
            /\ Len(invoked') = 1
            /\ invoked'[1].path = refs[MinOf(hits)].path
            /\ invoked'[1].top = refs[MinOf(hits)].top]_vars

\* C1, the case reached: a click inside three regions of the Group tree went
\* to the first of them only.
C1_Witness ==
  /\ invoked # <<>> /\ invoked[1].tree = "Group" /\ invoked[1].path = <<1, 1, 1>>
  /\ Len(invoked) = 1

\* C2: every payload the bridge delivers results in at most one callback
\* invocation, whatever the registry and the callbacks do.
C2_AtMostOneInvocation == Len(invoked) <= 1

\* C3: when the callback of the first matching region throws, the scan
\* stops: no later region is invoked for that click.
C3_ThrowConsumesEvent == (invoked # <<>> /\ invoked[1].threw) => Len(invoked) = 1

\* C4: a callback that throws is caught inside its own handler, top-level or
\* nested: no exception leaves a handler.
C4_ThrowNeverEscapes == \A i \in 1..Len(invoked) : ~invoked[i].escaped

C6_MalformedDiscarded == ~WellFormed(output) => invoked = <<>>

\* C7: a well-formed click whose point lies inside no region of the registry
\* invokes no callback and changes nothing.
C7_NoMatchNoEffect ==
  [][(DeliverStep /\ WellFormed(output')
        /\ Matching(clickHandler.clickHandlers, ClickX(output'), ClickY(output')) = {}) =>
       /\ invoked' = <<>>
       /\ UNCHANGED <<children, content, clickHandlers, clickHandler, queued,
                      pendingEffects, mounted, bridge>>]_vars

\* C8: a callback receives the pair parsed from the payload, and both
\* coordinates are integers, never NaN.
C8_CallbackGetsParsedIntegers ==
  \A i \in 1..Len(invoked) :
    /\ IsNum(invoked[i].x) /\ IsNum(invoked[i].y)
    /\ invoked[i].x = ClickX(output) /\ invoked[i].y = ClickY(output)

\* The shape test of a nested element with the click moved up by the
\* stacking offset of the element's top-level sibling.
ContainsWithOffset(tree, path, x, y) ==
  LET el == ElementAt(TreeOf(tree), path)
  IN NestedContains([top |-> FALSE, tree |-> tree, path |-> path, el |-> el,
                     heightUpToNow |-> 0, computedDimensions |-> ComputedDimensions(el)],
                    x, Sub(y, Num(StackingOffset(tree, path))))

\* C9: a descendant of the k-th top-level sibling is hit-tested with its y
\* moved down by the heights of the siblings before it, so its callback is
\* invoked only for clicks inside the moved shape.
C9_DescendantUsesStackingOffset ==
  \A i \in 1..Len(invoked) :
    ~invoked[i].top =>
      ContainsWithOffset(invoked[i].tree, invoked[i].path, invoked[i].x, invoked[i].y)

\* The paths of all elements below a list of siblings.
RECURSIVE PathsBelow(_, _)
PathsBelow(kids, prefix) ==
  UNION {{Append(prefix, i)} \cup PathsBelow(kids[i].children, Append(prefix, i)) :
           i \in 1..Len(kids)}

\* p comes before q in a depth-first, sibling-ordered traversal.
RECURSIVE PathBefore(_, _)
PathBefore(p, q) ==
  IF p = <<>> THEN q # <<>>
  ELSE IF q = <<>> THEN FALSE
  ELSE IF Head(p) # Head(q) THEN Head(p) < Head(q)
  ELSE PathBefore(Tail(p), Tail(q))

RECURSIVE InPreOrder(_)
InPreOrder(S) ==
  IF S = {} THEN <<>>
  ELSE LET first == CHOOSE p \in S : \A q \in S \ {p} : PathBefore(p, q)
       IN <<first>> \o InPreOrder(S \ {first})

Interactive(tree) ==
  {p \in PathsBelow(TreeOf(tree), <<>>) : HasOnClick(ElementAt(TreeOf(tree), p))}
InteractiveLeaves(tree) ==
  {p \in Interactive(tree) : ~HasChildren(ElementAt(TreeOf(tree), p))}
RegionPaths(refs) == [i \in 1..Len(refs) |-> refs[i].path]

\* C10 as stated: the build of a tree with N interactive leaves gives
\* exactly N regions, in the pre-order of the tree.
C10_RegionsAreInteractiveLeaves ==
  queued.set => RegionPaths(queued.clickHandlers) = InPreOrder(InteractiveLeaves(children))

\* C10 amended: when every callback-bearing node of the tree is a leaf, the
\* build gives exactly one region per such leaf, in the pre-order of the tree.
C10_LeafRegionsInPreOrder ==
  (queued.set /\ Interactive(children) = InteractiveLeaves(children)) =>
    RegionPaths(queued.clickHandlers) = InPreOrder(InteractiveLeaves(children))

\* C10, the case reached: a build of the Stack tree, three interactive
\* leaves, two of them under the same parent.
C10_Witness ==
  /\ queued.set /\ children = "Stack"
  /\ Interactive(children) = InteractiveLeaves(children)
  /\ Len(queued.clickHandlers) = 3

\* An element that is none of the shapes with geometry of their own.
GenericElement(el) == el.type \notin {"Circle", "Ellipse", "Polygon", "Line", "Toggle"}
ExplicitGeometry(el) ==
  /\ el.x.t # "undef" /\ el.y.t # "undef"
  /\ el.width.t # "undef" /\ el.height.t # "undef"

\* C11: a build that publishes a registry and markup met no callback-bearing
\* generic element without explicit x, y, width and height (such an element
\* makes the build fail before anything is published).
C11_GeometryErrorAtBuild ==
  queued.set =>
    \A p \in Interactive(children) :
      LET el == ElementAt(TreeOf(children), p)
      IN GenericElement(el) => ExplicitGeometry(el)

\* The regeneration effect is about to run on a tree whose build throws.
BuildAborts ==
  /\ mounted /\ "regenerate" \in pendingEffects /\ ~LoadGate
  /\ ~Built[children].ok

\* C12: a rebuild that fails with the geometry error leaves the published
\* markup, the published registry and the dispatcher as they were, and the
\* dispatcher then scans the registry that was published last.
C12_AbortedRebuildKeepsPublished ==
  [][(BuildAborts /\ ~mounted') =>
       /\ UNCHANGED <<content, clickHandlers, clickHandler>>
       /\ clickHandler'.clickHandlers = clickHandlers']_vars

\* C13: while waitUntilAllLoaded is set and the loading flag is true, no step
\* publishes markup or a registry and none is queued for publication; the
\* dispatcher keeps its registry or picks up the one published before, and
\* before the first tree change both are still empty.
C13_NothingPublishedWhileLoading ==
  [][(isLoading /\ waitUntilAllLoaded) =>
       /\ UNCHANGED <<content, clickHandlers>>
       /\ ~queued.set /\ ~queued'.set
       /\ clickHandler'.clickHandlers \in {clickHandler.clickHandlers, clickHandlers}
       /\ generation = 1 => (content = <<>> /\ clickHandlers = <<>>)]_vars

\* C13, the case reached: the tree changed while loading, the effects of
\* that render have run, and the markup is still the one published before.
C13_Witness ==
  /\ isLoading /\ waitUntilAllLoaded /\ mounted
  /\ generation = 2 /\ pendingEffects = {}
  /\ content # <<>> /\ content # dataString(children)

\* The registry the build loop derives from a tree.
RegistryOf(tree) == Built[tree].refs

\* The committed render brought the loading flag from true to false with a
\* tree that builds.
LoadingEnded(tree) ==
  /\ waitUntilAllLoaded /\ wasLoading /\ ~isLoading
  /\ mounted /\ children = tree
  /\ Built[tree].ok

PublishedFrom(tree) == content = dataString(tree) /\ clickHandlers = RegistryOf(tree)

\* C14: with waitUntilAllLoaded set, once a render has brought the loading
\* flag from true to false, the markup and the registry of the tree of that
\* render are eventually published, unless the tree or the flag changes
\* again or the surface is torn down first.
C14_LoadCompletionPublishes ==
  \A tree \in LiveTrees :
    LoadingEnded(tree) ~>
      (PublishedFrom(tree) \/ children # tree \/ isLoading \/ ~mounted)

\* Every accepted content change has been processed: the component is
\* mounted, the last render was not held back by the load gate, and no
\* effect or state update is outstanding.
Settled ==
  /\ mounted /\ ~(isLoading /\ waitUntilAllLoaded)
  /\ pendingEffects = {} /\ ~queued.set

\* C15: once every accepted content change has been processed, the registry
\* the dispatcher scans is the one derived from the latest tree (empty when
\* the latest tree has no interactive node).
C15_RegistryFollowsLatestTree ==
  Settled => (clickHandler.set /\ clickHandler.clickHandlers = RegistryOf(children))

\* The tree whose markup the host shows.
MarkupTree == content[1].img[1]

\* C16: whenever the bridge can deliver an event to the mounted component,
\* the registry the dispatcher scans is the one of the tree whose markup the
\* host shows (the empty registry while no markup is shown).
C16_MarkupAndRegistryPaired ==
  (bridge = "running" /\ mounted) =>
    clickHandler.clickHandlers = (IF content = <<>> THEN <<>> ELSE RegistryOf(MarkupTree))

\* A registry held anywhere in the state is empty or exactly as the build
\* of one tree made it.
AsBuilt(refs) == refs = <<>> \/ refs = RegistryOf(refs[1].tree)
RegistriesAsBuilt ==
  /\ AsBuilt(clickHandlers)
  /\ AsBuilt(clickHandler.clickHandlers)
  /\ AsBuilt(queued.clickHandlers)

\* C17: registries are never changed after the build, and one dispatch scans
\* only the registry the dispatcher held when the payload arrived: every
\* invocation is of a region of that registry, so all are of one tree, and
\* the dispatch swaps no registry.
C17_DispatchScansOneSnapshot ==
  [][/\ RegistriesAsBuilt'
     /\ DeliverStep =>
          LET refs == clickHandler.clickHandlers
          IN /\ \A i \in 1..Len(invoked') :
                  \E j \in 1..Len(refs) :
                    /\ invoked'[i].tree = refs[j].tree
                    /\ invoked'[i].path = refs[j].path
                    /\ invoked'[i].top = refs[j].top
             /\ UNCHANGED <<clickHandlers, clickHandler, queued>>]_vars

\* C17, the case reached: a dispatch scanned two regions of the registry it
\* held while the registry of another tree was queued for publication.
C17_Witness ==
  /\ Len(invoked) = 2
  /\ queued.set /\ queued.clickHandlers # clickHandler.clickHandlers
  /\ invoked[1].tree # children /\ invoked[2].tree = invoked[1].tree

C19_TeardownStopsObserver ==
  [][~mounted' => (bridge' # "running" /\ (DeliverStep => invoked' = <<>>))]_vars

\* The coordinates of a reported event.
EventPoint(event) == <<ClickX(event), ClickY(event)>>

\* C20: once everything the observer wrote has been read, one dispatch has
\* been made for each reported event, in the order of the reports and with
\* the coordinates of the event.
C20_DispatchedInReportedOrder ==
  stderr.pipe = <<>> =>
    stderr.dispatched =
      [i \in 1..Len(stderr.reported) |-> EventPoint(stderr.reported[i])]

\* The number of characters of the first i lines the observer wrote.
RECURSIVE LinesLength(_, _)
LinesLength(reported, i) ==
  IF i = 0 THEN 0 ELSE LinesLength(reported, i - 1) + Len(reported[i]) + 1

\* The number of lines that have been read to their end.
LinesRead ==
  LET read == LinesLength(stderr.reported, Len(stderr.reported)) - Len(stderr.pipe)
  IN Cardinality({i \in 1..Len(stderr.reported) : LinesLength(stderr.reported, i) <= read})

\* C21: however the reads cut the observer's output into chunks, the
\* dispatches made so far are one for each line read to its end, in order,
\* each with the coordinates of its line; a line read in part has caused no
\* dispatch yet.
C21_OneDispatchPerLineRead ==
  stderr.dispatched = [i \in 1..LinesRead |-> EventPoint(stderr.reported[i])]

\* C22: when the observer process cannot be created, the effect that starts
\* the bridge ends with the error (React removes the component), no second
\* start is made, and no payload is delivered from then on.
C22_SpawnErrorSurfaced ==
  [][bridge' = "failed" => (~mounted' /\ spawned' = 1 /\ ~DeliverStep)]_vars

\* ------------------------------------------------ hit tests taken alone
\* The behaviours in which one hit test is applied to one element and one
\* point: the element is drawn from the shapes below, the point from a grid
\* around them and from the points of the scenarios.
MaxCoordinate == 12
Grid == (Margin - 3)..(Margin + MaxCoordinate + 3)
ScenarioPoints == {<<115, 115>>, <<200, 200>>, <<117, 38>>, <<118, 38>>, <<117, 39>>}
ProbePoints == (Grid \X Grid) \cup ScenarioPoints

\* A toggle with its own width, height and control size.
ToggleSized(x, y, w, h, size, cb) ==
  [Toggle(x, y, cb) EXCEPT !.width = Num(w), !.height = Num(h), !.controlSize = Num(size)]

\* The vertex lists that trace the same closed polygon: every starting
\* vertex, in both directions.
Rotate(points, k) ==
  [i \in 1..Len(points) |-> points[((i + k - 1) % Len(points)) + 1]]
Reverse(points) == [i \in 1..Len(points) |-> points[Len(points) + 1 - i]]
Orders(points) ==
  {Rotate(points, k) : k \in 0..(Len(points) - 1)}
    \cup {Rotate(Reverse(points), k) : k \in 0..(Len(points) - 1)}

TrianglePoints == <<<<6, 0>>, <<12, 9>>, <<0, 9>>>>
SquarePoints == <<<<0, 0>>, <<10, 0>>, <<10, 10>>, <<0, 10>>>>
DiamondPoints == <<<<5, 0>>, <<10, 5>>, <<5, 10>>, <<0, 5>>>>
OctagonPoints ==
  <<<<4, 0>>, <<8, 0>>, <<11, 2>>, <<12, 6>>, <<8, 12>>, <<4, 12>>, <<0, 6>>, <<1, 2>>>>
CornerPoints == <<<<0, 0>>, <<10, 0>>, <<10, 4>>, <<4, 4>>, <<4, 10>>, <<0, 10>>>>
BowtiePoints == <<<<0, 0>>, <<10, 10>>, <<10, 0>>, <<0, 10>>>>
\* The triangle with its first vertex given twice (an edge of length zero).
RepeatedVertexPoints == <<<<6, 0>>, <<6, 0>>, <<12, 9>>, <<0, 9>>>>

ProbePolygons ==
  {Polygon(points, "ok") :
     points \in Orders(TrianglePoints) \cup Orders(SquarePoints) \cup Orders(DiamondPoints)
                  \cup Orders(OctagonPoints) \cup Orders(CornerPoints)
                  \cup Orders(BowtiePoints) \cup Orders(RepeatedVertexPoints)}

ProbeShapes ==
  {Circle(5, 5, 5, "ok"), Circle(6, 6, 0, "ok"), Circle(100, 100, 50, "ok"),
   Ellipse(6, 6, 5, 3, "ok"), Ellipse(6, 6, 5, 5, "ok"), Ellipse(6, 6, 0, 3, "ok"),
   Rect(1, 2, 38, 24, "ok", <<>>), Rect(3, 1, 36, 20, "ok", <<>>),
   H1(Num(2), Num(2), Num(40), Num(26), "ok"),
   Text(Num(1), Num(2), Num(38), Num(24), Undefined, <<4>>, "ok"),
   Line(0, 4, 8, 0, 1, "ok"), Line(2, 2, 8, 8, 2, "ok"), Line(0, 5, 8, 5, 1, "ok"),
   Line(5, 0, 5, 8, 2, "ok"), Line(3, 3, 3, 3, 2, "ok"),
   Toggle(2, 3, "ok"), ToggleSized(2, 3, 10, 5, 4, "ok"), ToggleSized(2, 3, 120, 40, 20, "ok"),
   ToggleSized(1, 2, 10, 5, 4, "ok")}
    \cup ProbePolygons

\* The element is registered as a nested handler and its test is applied to
\* the point, as the handler does before it calls the callback.
Probe ==
  /\ ~probe.probed
  /\ LET h == NestedHandler([path |-> <<1, 1>>, el |-> probe.el])
         x == Num(probe.x)
         y == Num(probe.y)
     IN probe' = [probe EXCEPT
                    !.probed = TRUE,
                    !.hit = NestedContains(h, x, y),
                    !.examined = IF probe.el.type = "Polygon"
                                 THEN PolygonLoopPasses(probe.el, x, y)
                                 ELSE 0]
  /\ UNCHANGED <<children, isLoading, waitUntilAllLoaded, content, clickHandlers,
                 clickHandler, queued, pendingEffects, mounted, bridge, spawned,
                 wasLoading, stderr, generation, output, invoked, prevThrew,
                 delegate, delegates, preload>>

HitInit ==
  /\ InitComponent /\ children = "Plain" /\ ~waitUntilAllLoaded
  /\ NoHooks
  /\ probe \in {[NoProbe EXCEPT !.el = el, !.x = point[1], !.y = point[2]] :
                  el \in ProbeShapes, point \in ProbePoints}

HitNext == Probe

HitSpec == HitInit /\ [][HitNext]_vars

\* The probe has been made on an element of the given type.
Probed(type) == probe.probed /\ probe.el.type = type

\* C23: the circle test holds exactly for the points whose distance to the
\* shifted centre (cx+15, cy+15) is less than the radius, the points at the
\* distance of the radius excluded; for cx=100, cy=100, r=50 the point
\* (115,115) is a hit and (200,200) is not.
C23_CircleStrictlyInside ==
  Probed("Circle") =>
    LET dx == probe.x - (probe.el.cx.v + Margin)
        dy == probe.y - (probe.el.cy.v + Margin)
        r == probe.el.radius.v
    IN /\ probe.hit <=> (dx * dx + dy * dy < r * r)
       /\ (dx * dx + dy * dy = r * r) => ~probe.hit
       /\ (probe.el = Circle(100, 100, 50, "ok") /\ probe.x = 115 /\ probe.y = 115)
            => probe.hit
       /\ (probe.el = Circle(100, 100, 50, "ok") /\ probe.x = 200 /\ probe.y = 200)
            => ~probe.hit

\* C23, the case reached: a point at the distance of the radius (3, 4, 5)
\* has been tested and is not a hit.
C23_Witness ==
  /\ Probed("Circle") /\ probe.el = Circle(5, 5, 5, "ok")
  /\ probe.x = 23 /\ probe.y = 24 /\ ~probe.hit

\* C24: the ellipse test holds exactly for the points with
\* ((x-cx-15)/rx)^2 + ((y-cy-15)/ry)^2 < 1 (a zero radius gives no finite
\* value and no hit); the points of the ellipse itself are not hits.
C24_EllipseStrictlyInside ==
  Probed("Ellipse") =>
    LET dx == probe.x - probe.el.cx.v - Margin
        dy == probe.y - probe.el.cy.v - Margin
        rx2 == probe.el.rx.v * probe.el.rx.v
        ry2 == probe.el.ry.v * probe.el.ry.v
    IN /\ probe.hit <=> (rx2 # 0 /\ ry2 # 0 /\ dx * dx * ry2 + dy * dy * rx2 < rx2 * ry2)
       /\ (dx * dx * ry2 + dy * dy * rx2 = rx2 * ry2) => ~probe.hit

\* C24, the case reached: the end of the horizontal axis of an ellipse, a
\* point of the ellipse itself, has been tested and is not a hit.
C24_Witness ==
  /\ Probed("Ellipse") /\ probe.el = Ellipse(6, 6, 5, 3, "ok")
  /\ probe.x = 26 /\ probe.y = 21 /\ ~probe.hit

\* C25: for a nested generic element with explicit x, y, width and height
\* the test holds exactly when left+15 < x < left+width-15 and
\* top+15 < y < top+height.
C25_BoundingBoxStrict ==
  (probe.probed /\ GenericElement(probe.el) /\ ExplicitGeometry(probe.el)) =>
    (probe.hit <=>
       /\ probe.el.x.v + Margin < probe.x
       /\ probe.x < probe.el.x.v + probe.el.width.v - Margin
       /\ probe.el.y.v + Margin < probe.y
       /\ probe.y < probe.el.y.v + probe.el.height.v)

\* C25, the case reached: a point with y between top+height-15 and
\* top+height has been tested and is a hit (the margin is taken from the
\* right bound and not from the lower one).
C25_Witness ==
  /\ probe.probed /\ probe.el = Rect(1, 2, 38, 24, "ok", <<>>)
  /\ probe.x = 23 /\ probe.y = 25 /\ probe.hit

\* C26: the line test holds exactly when |y - (m*x + b)| < strokeWidth for
\* the line y = m*x + b through the shifted endpoints (no segment with
\* x1 = x2 has such a line, and it has no hit); the test does not end at
\* the endpoints.
C26_LineNotClipped ==
  Probed("Line") =>
    LET x1 == probe.el.x1.v + Margin
        y1 == probe.el.y1.v + Margin
        x2 == probe.el.x2.v + Margin
        y2 == probe.el.y2.v + Margin
        \* |y - (m*x + b)| * |x2 - x1|
        distance == Abs((probe.y - y1) * (x2 - x1) - (y2 - y1) * (probe.x - x1))
    IN probe.hit <=> (x1 # x2 /\ distance < probe.el.strokeWidth.v * Abs(x2 - x1))

\* C26, the case reached: a point of the line beyond the second endpoint
\* has been tested and is a hit.
C26_Witness ==
  /\ Probed("Line") /\ probe.el = Line(2, 2, 8, 8, 2, "ok")
  /\ probe.x = 26 /\ probe.y = 26 /\ probe.hit

BoundingBox(polygon) ==
  LET points == ShiftedPoints(polygon)
  IN [minX |-> MinOf({points[i].x : i \in 1..Len(points)}),
      minY |-> MinOf({points[i].y : i \in 1..Len(points)}),
      maxX |-> MaxOf({points[i].x : i \in 1..Len(points)}),
      maxY |-> MaxOf({points[i].y : i \in 1..Len(points)})]

OutsideBoundingBox(polygon, x, y) ==
  LET box == BoundingBox(polygon)
  IN x < box.minX \/ x > box.maxX \/ y < box.minY \/ y > box.maxY

\* C28: a point outside the bounding box of the shifted vertices of a
\* polygon is not a hit, and no pass of the counting loop has been made for
\* it.
C28_OutsideBoxRejectedFirst ==
  (Probed("Polygon") /\ OutsideBoundingBox(probe.el, probe.x, probe.y)) =>
    (~probe.hit /\ probe.examined = 0)

\* C28, the case reached: a point left of the box of the octagon has been
\* tested; it is not a hit and no pass of the loop has been made.
C28_Witness ==
  /\ Probed("Polygon") /\ probe.el = Polygon(OctagonPoints, "ok")
  /\ probe.x = 14 /\ probe.y = 20 /\ ~probe.hit /\ probe.examined = 0

\* ------------------------------------------- the interior of a polygon
\* Twice the signed area of the triangle o, a, b.
Cross(o, a, b) == (a.x - o.x) * (b.y - o.y) - (a.y - o.y) * (b.x - o.x)

Sign(n) == IF n > 0 THEN 1 ELSE IF n < 0 THEN -1 ELSE 0

\* The point p lies on the closed segment a, b.
OnSegment(a, b, p) ==
  /\ Cross(a, b, p) = 0
  /\ MinOf({a.x, b.x}) <= p.x /\ p.x <= MaxOf({a.x, b.x})
  /\ MinOf({a.y, b.y}) <= p.y /\ p.y <= MaxOf({a.y, b.y})

\* The closed segments a, b and c, d have a point in common.
SegmentsMeet(a, b, c, d) ==
  \/ /\ Sign(Cross(a, b, c)) * Sign(Cross(a, b, d)) < 0
     /\ Sign(Cross(c, d, a)) * Sign(Cross(c, d, b)) < 0
  \/ OnSegment(a, b, c) \/ OnSegment(a, b, d)
  \/ OnSegment(c, d, a) \/ OnSegment(c, d, b)

\* Vertex i of a closed polygon, counted round.
Vertex(points, i) == points[((i - 1) % Len(points)) + 1]

\* A simple closed polygon: edges that are not neighbours have no point in
\* common, and neighbours have only their vertex in common.
Simple(points) ==
  LET n == Len(points)
  IN /\ n >= 3
     /\ \A i, j \in 1..n :
          i < j =>
            IF j = i + 1 \/ (i = 1 /\ j = n)
            THEN LET shared == IF j = i + 1 THEN Vertex(points, j) ELSE Vertex(points, 1)
                     first  == IF j = i + 1 THEN Vertex(points, i) ELSE Vertex(points, n)
                     last   == IF j = i + 1 THEN Vertex(points, j + 1) ELSE Vertex(points, 2)
                 IN /\ first # shared /\ last # shared
                    /\ ~OnSegment(first, shared, last) /\ ~OnSegment(shared, last, first)
            ELSE ~SegmentsMeet(Vertex(points, i), Vertex(points, i + 1),
                               Vertex(points, j), Vertex(points, j + 1))

\* A convex polygon: simple, and every turn is to the same side.
Convex(points) ==
  /\ Simple(points)
  /\ \/ \A i \in 1..Len(points) :
          Cross(Vertex(points, i), Vertex(points, i + 1), Vertex(points, i + 2)) > 0
     \/ \A i \in 1..Len(points) :
          Cross(Vertex(points, i), Vertex(points, i + 1), Vertex(points, i + 2)) < 0

\* The point p lies on an edge of the polygon.
OnBoundary(points, p) ==
  \E i \in 1..Len(points) : OnSegment(Vertex(points, i), Vertex(points, i + 1), p)

\* The half-line from p to the right crosses the edge a, b (the crossing
\* number test, in integers).
CrossesToTheRight(a, b, p) ==
  /\ (a.y > p.y) # (b.y > p.y)
  /\ IF b.y > a.y
     THEN (p.x - a.x) * (b.y - a.y) < (b.x - a.x) * (p.y - a.y)
     ELSE (p.x - a.x) * (b.y - a.y) > (b.x - a.x) * (p.y - a.y)

\* The point p is strictly inside, strictly outside the simple polygon.
StrictlyInside(points, p) ==
  /\ ~OnBoundary(points, p)
  /\ Cardinality({i \in 1..Len(points) :
                    CrossesToTheRight(Vertex(points, i), Vertex(points, i + 1), p)}) % 2 = 1
StrictlyOutside(points, p) ==
  /\ ~OnBoundary(points, p)
  /\ Cardinality({i \in 1..Len(points) :
                    CrossesToTheRight(Vertex(points, i), Vertex(points, i + 1), p)}) % 2 = 0

\* The point that has been tested.
ProbePoint == [x |-> probe.x, y |-> probe.y]

\* C29: for a convex polygon, in every vertex order and from every starting
\* vertex, a point strictly inside the polygon (the centroid among them) is
\* a hit.
C29_ConvexInteriorHit ==
  (Probed("Polygon") /\ Convex(ShiftedPoints(probe.el))
     /\ StrictlyInside(ShiftedPoints(probe.el), ProbePoint))
    => probe.hit

\* C30: for a simple closed polygon the test agrees with the interior: a
\* point strictly inside is a hit and a point strictly outside, inside the
\* bounding box or not, is not.
C30_SimplePolygonInterior ==
  (Probed("Polygon") /\ Simple(ShiftedPoints(probe.el))) =>
    /\ StrictlyInside(ShiftedPoints(probe.el), ProbePoint) => probe.hit
    /\ StrictlyOutside(ShiftedPoints(probe.el), ProbePoint) => ~probe.hit

\* The ray of the polygon test for the point that has been tested.
ProbeRay ==
  [x1 |-> ShiftedPoints(probe.el)[1].x, y1 |-> RayStartY, x2 |-> probe.x, y2 |-> probe.y]

\* An edge with x1 = x2: vertical, or of length zero.
NoSlope(edge) == edge.x1 = edge.x2

\* C31 (as the code has it): a computation without a finite value raises
\* nothing and counts as a comparison that fails: a segment with x1 = x2
\* (vertical or of length zero), an ellipse with rx = 0 or ry = 0, and a
\* polygon whose ray is vertical have no hit; a polygon edge with x1 = x2 is
\* never counted, the other edges decide the result.
C31_NonFiniteGivesNoHit ==
  /\ (Probed("Line") /\ probe.el.x1 = probe.el.x2) => ~probe.hit
  /\ (Probed("Ellipse") /\ (probe.el.rx.v = 0 \/ probe.el.ry.v = 0)) => ~probe.hit
  /\ (Probed("Polygon") /\ ProbeRay.x1 = ProbeRay.x2) => ~probe.hit
  /\ Probed("Polygon") =>
       LET edges == Edges(ShiftedPoints(probe.el))
           counted == {i \in 1..Len(edges) :
                         EdgeCounts(edges[i], ProbeRay, BoundingBox(probe.el))}
       IN /\ \A i \in counted : ~NoSlope(edges[i])
          /\ probe.hit => Cardinality(counted) % 2 = 1

\* C31 (as stated): a polygon that has a vertical edge or an edge of length
\* zero has no hit.
C31_DegenerateEdgeGivesNoHit ==
  (Probed("Polygon") /\ \E i \in 1..Len(probe.el.points) :
                          NoSlope(Edges(ShiftedPoints(probe.el))[i]))
    => ~probe.hit

\* C31, the case reached: an ellipse with rx = 0 has been tested at its
\* centre and is not a hit.
C31_Witness ==
  /\ Probed("Ellipse") /\ probe.el = Ellipse(6, 6, 0, 3, "ok")
  /\ probe.x = 21 /\ probe.y = 21 /\ ~probe.hit

\* The intersection of the line of the ray and the line of the edge lies in
\* the box of the edge itself (x0 = nx/d and y0 = ny/(rdx*d) as in
\* EdgeCounts).
WithinEdge(edge, ray) ==
  LET rdx == ray.x2 - ray.x1
      rdy == ray.y2 - ray.y1
      edx == edge.x2 - edge.x1
      edy == edge.y2 - edge.y1
      d   == rdy * edx - edy * rdx
      nx  == (edge.y1 - ray.y1) * edx * rdx - edy * edge.x1 * rdx + rdy * ray.x1 * edx
      ny  == rdy * (nx - ray.x1 * d) + ray.y1 * rdx * d
  IN /\ RatGe(nx, d, MinOf({edge.x1, edge.x2})) /\ RatLe(nx, d, MaxOf({edge.x1, edge.x2}))
     /\ RatGe(ny, rdx * d, MinOf({edge.y1, edge.y2}))
     /\ RatLe(ny, rdx * d, MaxOf({edge.y1, edge.y2}))

\* C33: an intersection is counted only when it lies in the box of the ray,
\* in the box of the edge itself and in the bounding box of the polygon, so
\* that no intersection with the prolongation of an edge is counted; the
\* point is a hit exactly when the count is odd.
C33_CountedOnlyOnEdge ==
  (Probed("Polygon") /\ ~OutsideBoundingBox(probe.el, probe.x, probe.y)) =>
    LET edges == Edges(ShiftedPoints(probe.el))
        counted == {i \in 1..Len(edges) :
                      EdgeCounts(edges[i], ProbeRay, BoundingBox(probe.el))}
    IN /\ \A i \in counted : WithinEdge(edges[i], ProbeRay)
       /\ probe.hit <=> (Cardinality(counted) % 2 = 1)

\* C36: a segment whose endpoints have the same x has no hit at any point,
\* whatever its stroke width, the points of the drawn segment included.
C36_VerticalSegmentNeverHit ==
  (Probed("Line") /\ probe.el.x1.v = probe.el.x2.v) => ~probe.hit

\* C36, the case reached: the middle of a vertical segment of stroke width 2
\* has been tested and is not a hit.
C36_Witness ==
  /\ Probed("Line") /\ probe.el = Line(5, 0, 5, 8, 2, "ok")
  /\ probe.x = 20 /\ probe.y = 19 /\ ~probe.hit

\* C34: the callback of a top-level element is invoked only for clicks in
\* its declared rectangle moved down by the heights of the siblings declared
\* before it.
C34_TopLevelOnlyInsideRectangle ==
  \A i \in 1..Len(invoked) :
    invoked[i].top => DeclaredRectContains(invoked[i], invoked[i].x, invoked[i].y)

\* C35: every callback-bearing element of the tree, at any depth, has
\* exactly one region in the registry that is built, and the registry holds
\* nothing else.
C35_OneRegionPerCallbackNode ==
  queued.set =>
    LET paths == RegionPaths(queued.clickHandlers)
    IN /\ \A p \in Interactive(children) :
            Cardinality({i \in 1..Len(paths) : paths[i] = p}) = 1
       /\ \A i \in 1..Len(paths) : paths[i] \in Interactive(children)

\* ------------------------------------------------------ toggle delegates
\* The behaviours of an owner component that holds one delegate made by
\* useToggleDelegate, given to a Toggle under ClickableDetail, and the
\* delegates made by useToggleDelegates.  A setter call queues an update;
\* the next render of the owner commits the queued updates, the last value
\* set being the new state, and makes new delegate objects that close over
\* the new state.
MaxCalls == 2
MaxDelegates == 2

\* The variables of ClickableDetail, which the hooks of the owner leave alone.
componentVars ==
  <<children, isLoading, waitUntilAllLoaded, content, clickHandlers, clickHandler,
    queued, pendingEffects, mounted, bridge, spawned, wasLoading, stderr, generation,
    output, invoked, prevThrew>>

\* The state the hook has once the updates queued so far are committed.
Latest(hook, state) == IF hook.queue = <<>> THEN state ELSE hook.queue[Len(hook.queue)]

\* toggle of useToggleDelegate, called on the delegate of the last render:
\* setEnabled(!enabled) with the enabled of that render.
ToggleCall ==
  /\ delegate.calls + delegate.clicks < MaxCalls
  /\ delegate' = [delegate EXCEPT !.queue = Append(@, ~delegate.enabled),
                                  !.calls = @ + 1]
  /\ UNCHANGED <<componentVars, probe, delegates, preload>>

\* A click is dispatched to the Toggle: the handler of the registry calls
\* props.onClick of the element it holds, which Toggle has replaced by
\* delegate.toggle() followed by the onClick of the user.  The delegate is
\* the one of the render that made the element.
ClickToggle ==
  /\ delegate.calls + delegate.clicks < MaxCalls
  /\ delegate' = [delegate EXCEPT !.queue = Append(@, ~delegate.registered),
                                  !.clicks = @ + 1,
                                  !.onClicks = @ + 1]
  /\ UNCHANGED <<componentVars, probe, delegates, preload>>

\* toggle(index) of useToggleDelegates: a copy of the states of the last
\* render with one entry negated is set.
ToggleAt(index) ==
  /\ delegates.calls < MaxCalls
  /\ delegates' =
       [delegates EXCEPT
          !.queue = Append(@, [delegates.states EXCEPT ![index] = ~@]),
          !.expected = [@ EXCEPT ![index] = ~@],
          !.repeated = @ \/ index \in delegates.called,
          !.called = @ \cup {index},
          !.calls = @ + 1]
  /\ UNCHANGED <<componentVars, probe, delegate, preload>>

\* setEnabled(index, enabled) of useToggleDelegates.
SetEnabledAt(index, enabled) ==
  /\ delegates.calls < MaxCalls
  /\ delegates' =
       [delegates EXCEPT
          !.queue = Append(@, [delegates.states EXCEPT ![index] = enabled]),
          !.expected = [@ EXCEPT ![index] = enabled],
          !.repeated = @ \/ index \in delegates.called,
          !.called = @ \cup {index},
          !.calls = @ + 1]
  /\ UNCHANGED <<componentVars, probe, delegate, preload>>

\* The owner renders: the queued updates of both hooks are committed.
RenderOwner ==
  /\ delegate.queue # <<>> \/ delegates.queue # <<>>
  /\ delegate' = [delegate EXCEPT !.enabled = Latest(delegate, @), !.queue = <<>>]
  /\ delegates' = [delegates EXCEPT !.states = Latest(delegates, @), !.queue = <<>>,
                                    !.called = {}]
  /\ UNCHANGED <<componentVars, probe, preload>>

\* ClickableDetail has rebuilt the registry from the elements of the last
\* render of the owner and the dispatcher has taken it.
RegenerateToggle ==
  /\ delegate.registered # delegate.enabled
  /\ delegate' = [delegate EXCEPT !.registered = delegate.enabled]
  /\ UNCHANGED <<componentVars, probe, delegates, preload>>

ToggleInit ==
  /\ InitComponent /\ children = "StackToggle" /\ ~waitUntilAllLoaded
  /\ probe = NoProbe /\ preload = NoPreload
  /\ delegate \in {[NoDelegate EXCEPT !.initial = b, !.enabled = b, !.registered = b] :
                     b \in BOOLEAN}
  /\ delegates \in {[NoDelegates EXCEPT !.initial = s, !.states = s, !.expected = s] :
                      s \in [1..MaxDelegates -> BOOLEAN]}

ToggleNext ==
  \/ ToggleCall
  \/ ClickToggle
  \/ \E index \in 1..MaxDelegates : ToggleAt(index)
  \/ \E index \in 1..MaxDelegates, enabled \in BOOLEAN : SetEnabledAt(index, enabled)
  \/ RenderOwner
  \/ RegenerateToggle

ToggleSpec == ToggleInit /\ [][ToggleNext]_vars

\* C32: each click dispatched to a Toggle negates the state of its delegate
\* (the state the hook has once the click's update is committed is the
\* negation of the one it would have had without the click), and the onClick
\* of the user is invoked once.
C32_ClickFlipsOnce ==
  [][delegate'.clicks = delegate.clicks + 1 =>
       /\ Latest(delegate', delegate'.enabled) = ~Latest(delegate, delegate.enabled)
       /\ delegate'.onClicks = delegate.onClicks + 1]_vars

\* b negated n times.
Flipped(b, n) == IF n % 2 = 0 THEN b ELSE ~b

\* C37: once the updates of n toggle() calls are committed, the state of the
\* delegate is the initial state negated n times, also when calls were made
\* on the same delegate object between two renders.
C37_TogglesFollowParity ==
  delegate.queue = <<>> =>
    delegate.enabled = Flipped(delegate.initial, delegate.calls + delegate.clicks)

\* C38: a toggle or setEnabled on delegate i changes state i only, and when
\* different delegates were called between two renders every change is kept:
\* once the updates are committed, each state is what the calls on its own
\* delegate made it.
C38_EachDelegateOwnState ==
  (delegates.queue = <<>> /\ ~delegates.repeated) => delegates.states = delegates.expected

\* ------------------------------------------------------ usePreloadedImages
\* The behaviours of a component that calls usePreloadedImages with
\* preload.sources different sources, numbered in the order of the argument.
\* The data of an image is named by the number of its source.  The effect of
\* the first render has run: the fetch of the first source is outstanding.
MaxImages == 4

\* The fetch awaited by Image.preload resolves: the read of the body is
\* started with a then-callback, the promise of preload resolves and the loop
\* of loadImages goes on to the fetch of the next source.
FetchResolves ==
  /\ preload.fetching <= preload.sources
  /\ preload' = [preload EXCEPT !.reading = @ \cup {preload.fetching},
                                !.fetching = @ + 1]
  /\ UNCHANGED <<componentVars, probe, delegate, delegates>>

\* The fetch rejects: preload and loadImages reject and the loop ends.
FetchRejects ==
  /\ preload.fetching <= preload.sources
  /\ preload' = [preload EXCEPT !.fetching = preload.sources + 1, !.failed = TRUE]
  /\ UNCHANGED <<componentVars, probe, delegate, delegates>>

\* The body of source i has been read: onPreloaded queues an updater that
\* appends the state of the image to the previous array.
BodyRead(i) ==
  /\ i \in preload.reading
  /\ preload' = [preload EXCEPT !.reading = @ \ {i}, !.queue = Append(@, i)]
  /\ UNCHANGED <<componentVars, probe, delegate, delegates>>

\* The read of the body of source i rejects: the callback is never called.
BodyReadRejects(i) ==
  /\ i \in preload.reading
  /\ preload' = [preload EXCEPT !.reading = @ \ {i}, !.failed = TRUE]
  /\ UNCHANGED <<componentVars, probe, delegate, delegates>>

\* The component renders: the queued updaters are applied in the order in
\* which they were queued.
RenderPreloaded ==
  /\ preload.queue # <<>>
  /\ preload' = [preload EXCEPT !.preloadStates = @ \o preload.queue, !.queue = <<>>]
  /\ UNCHANGED <<componentVars, probe, delegate, delegates>>

PreloadInit ==
  /\ InitComponent /\ children = "Stack" /\ ~waitUntilAllLoaded
  /\ probe = NoProbe /\ delegate = NoDelegate /\ delegates = NoDelegates
  /\ preload \in {[NoPreload EXCEPT !.sources = n] : n \in 1..MaxImages}

PreloadNext ==
  \/ FetchResolves
  \/ FetchRejects
  \/ \E i \in 1..MaxImages : BodyRead(i)
  \/ \E i \in 1..MaxImages : BodyReadRejects(i)
  \/ RenderPreloaded

PreloadSpec == PreloadInit /\ [][PreloadNext]_vars

\* C39: when no fetch and no read has failed, the states returned by
\* usePreloadedImages are in the order of the sources for every interleaving
\* of the completions: the i-th state returned holds the data of the i-th
\* source.
C39_StatesInSourceOrder ==
  ~preload.failed =>
    \A i \in 1..Len(preload.preloadStates) : preload.preloadStates[i] = i
====
